---- MODULE Spec2Model ----
(***************************************************************************)
(* Signaling server of enoughsantosh/Call-pro (the server with             *)
(* acknowledgment callbacks and validation).  The process is one Node.js   *)
(* event loop: every socket.io handler runs to completion, so a handler is *)
(* one atomic action.  The only deferred work is the retry timer that      *)
(* saveDB arms when a write fails.                                         *)
(*                                                                         *)
(* Modelling decisions:                                                    *)
(*  - a connection is "new", then "up", then "down" (its disconnect was    *)
(*    handled) or "gone" (its process ended) for good: socket identifiers  *)
(*    are never reused;                                                    *)
(*  - room codes and socket identifiers are disjoint strings;              *)
(*  - the first start of the process finds no db.json file; db.json is     *)
(*    written by this program only; Restart is the SIGINT handler followed *)
(*    by the next start of the program, which loads what the file holds;   *)
(*  - a value a client sends is a string or is missing (undefined);        *)
(*  - db.rooms is kept in the property order of the JavaScript object:     *)
(*    array-index keys in ascending order, then the other keys in the      *)
(*    order of their creation;                                             *)
(*  - last, emits and delivered describe the step just taken; peerJoins,   *)
(*    wasFull, rejoined and sinceJoin are history variables that no        *)
(*    handler reads;                                                       *)
(*  - proto is Object.prototype.connectedAt, which call_connected sets     *)
(*    when the room argument is '__proto__'; 'connectedAt' is therefore    *)
(*    one of the room codes: a room of that name shadows the property.     *)
(*                                                                         *)
(* Every specification has the same actions; they differ in the inputs the *)
(* environment sends (see the Next relations at the end), and SpecSave     *)
(* starts under a disk that may fail writes (InitSave).                    *)
(***************************************************************************)
EXTENDS Integers, Sequences, FiniteSets, TLC

\* ---------------------------------------------------------------- bounds
NumSockets == 2
MaxClock == 2
MaxCalls == 2
MaxRecords == 1
MaxPending == 2
MaxFaults == 3

\* ------------------------------------------------------ program constants
maxAttempts == 3
MinCodeLength == 4
Capacity == 2

\* ------------------------------------------------------------ input sets
Sockets == 1..NumSockets
Codes == {"ABCD", "1234", "5678", "connectedAt"}
ShortCode == "AB"
EmptyCode == ""
Messages == {"hi"}
NoTime == 0
NoSocket == 0

\* A value a client sends as a room argument: a string, or nothing.  value
\* is String(x), what the value becomes as a property key or a group name.
Str(v) == [type |-> "string", value |-> v]
Undefined == [type |-> "undefined", value |-> "undefined"]
Key(x) == x.value

\* The properties every object inherits from Object.prototype, as far as
\* the clients of the model name them: a method and the prototype itself.
ConstructorKey == "constructor"
ProtoKey == "__proto__"
InheritedKeys == {ConstructorKey, ProtoKey}
\* the property call_connected('__proto__') adds to Object.prototype
PollutedKey == "connectedAt"

\* The canonical array indices among the codes: the keys for..in and
\* JSON.stringify visit first, in ascending numeric order; -1 for the others.
ArrayIndex(code) ==
  CASE code = "1234" -> 1234
    [] code = "5678" -> 5678
    [] OTHER -> -1

\* --------------------------------------------------------- error messages
InvalidRoomCode == "Invalid room code"
RoomAlreadyExists == "Room already exists"
RoomDoesNotExist == "Room does not exist"
RoomIsFull == "Room is full"
NotARoomParticipant == "Not a room participant"
InvalidMessageData == "Invalid message data"
RoomNotFound == "Room not found"
TypeErrorUndefined == "TypeError: cannot read properties of undefined"
TypeErrorCallback == "TypeError: callback is not a function"
TypeErrorLength == "Cannot read properties of undefined (reading 'length')"
TypeErrorIncludes == "Cannot read properties of undefined (reading 'includes')"
TypeErrorIndexOf == "Cannot read properties of undefined (reading 'indexOf')"
TypeErrorPush == "db.offlineMessages[room].push is not a function"

InvalidData(kind) ==
  IF kind = "offer" THEN "Invalid offer data"
  ELSE IF kind = "answer" THEN "Invalid answer data"
  ELSE "Invalid ICE candidate data"

VARIABLES
  db,         \* the in-memory database object
  disk,       \* content of db.json: <<>> (no file), <<last written db>> or <<Truncated>>
  timers,     \* pending setTimeout(attemptSave) closures: their attempts counters, oldest first
  faults,     \* how many more writes of db.json the environment may fail
  conn,       \* per socket: "new", "up", "down" (disconnected) or "gone" (its process ended)
  groups,     \* socket.io broadcast groups, by room name
  clock,      \* the wall clock read by new Date()
  last,       \* the step just taken: event, sender, room argument, error caught, acknowledgment
  emits,      \* the events that step emitted: [ev, room, target, rcpts]
  delivered,  \* the payload of that step's pending_messages event
  unhandled,  \* an exception has escaped a handler
  proto,      \* Object.prototype.connectedAt, NoTime while it is not defined
  peerJoins,  \* history: per code, how often peer_joined was emitted since the room's creation
  wasFull,    \* history: per code, the room has had two participants since its creation
  rejoined,   \* history: per code, a participant of the room has joined it again since its creation
  sinceJoin   \* history: per code, the messages appended since the last successful join

vars == <<db, disk, timers, faults, conn, groups, clock, last, emits, delivered,
          unhandled, proto, peerJoins, wasFull, rejoined, sinceJoin>>

\* ----------------------------------------------------------- JS helpers
\* Array.prototype.indexOf, 1-based; 0 stands for -1
IndexOf(seq, x) ==
  IF \E i \in 1..Len(seq) : seq[i] = x
  THEN CHOOSE i \in 1..Len(seq) : seq[i] = x /\ \A j \in 1..(i-1) : seq[j] # x
  ELSE 0

\* Array.prototype.includes
Includes(seq, x) == \E i \in 1..Len(seq) : seq[i] = x

\* Array.prototype.splice(index, 1), 1-based
Splice(seq, i) == SubSeq(seq, 1, i - 1) \o SubSeq(seq, i + 1, Len(seq))

\* !room is false: room is neither undefined nor the empty string
Truthy(room) == room.type = "string" /\ room.value # ""
\* typeof room === 'string'
IsString(room) == room.type = "string"

\* db.rooms is an object: its keys in insertion order, which for..in follows
RoomIdx(rooms, room) ==
  IF \E i \in 1..Len(rooms) : rooms[i].code = room
  THEN CHOOSE i \in 1..Len(rooms) : rooms[i].code = room
  ELSE 0

\* room is an own property of db.rooms: a room a create event registered
OwnRoom(d, room) == RoomIdx(d.rooms, room) # 0

\* db.rooms[room] finds a property db.rooms inherits from Object.prototype
Inherited(room) == room \in InheritedKeys \/ (room = PollutedKey /\ proto # NoTime)

\* db.rooms[room] is truthy
HasRoom(d, room) == OwnRoom(d, room) \/ Inherited(room)

\* roomObj.connectedAt: the room's own property or, without one, the
\* property it inherits from Object.prototype
ConnectedAt(roomObj) ==
  IF roomObj.connectedAt # NoTime THEN roomObj.connectedAt ELSE proto

\* for..in and JSON.stringify visit the array-index keys first
IsIndex(code) == ArrayIndex(code) >= 0

\* db.rooms[room] = roomObj for a new key: its place in the property order
InsertRoom(rooms, roomObj) ==
  IF ~IsIndex(roomObj.code) THEN Append(rooms, roomObj)
  ELSE LET n == Cardinality({i \in 1..Len(rooms) :
                   IsIndex(rooms[i].code)
                   /\ ArrayIndex(rooms[i].code) < ArrayIndex(roomObj.code)})
       IN SubSeq(rooms, 1, n) \o <<roomObj>> \o SubSeq(rooms, n + 1, Len(rooms))

\* db.rooms[room]
RoomObj(d, room) == d.rooms[RoomIdx(d.rooms, room)]

\* delete db.rooms[room]
DeleteRoom(rooms, room) ==
  IF RoomIdx(rooms, room) = 0 THEN rooms ELSE Splice(rooms, RoomIdx(rooms, room))

\* db.rooms[room].participants, [] when the room is not registered
Participants(d, room) == IF OwnRoom(d, room) THEN RoomObj(d, room).participants ELSE <<>>

\* socket.id is in the participants of the registered room
IsParticipant(d, room, s) == OwnRoom(d, room) /\ Includes(RoomObj(d, room).participants, s)

\* The own list db.offlineMessages has for room: a key is present exactly
\* when its sequence is not empty (leave_message creates and fills it in
\* one handler, join deletes it), so an absent key is the empty sequence
OwnPending(d, room) ==
  IF room \in DOMAIN d.offlineMessages THEN d.offlineMessages[room] ELSE <<>>

\* The values db.offlineMessages[room] can have: an own array of messages,
\* undefined, or what db.offlineMessages inherits from Object.prototype:
\* the ISO string of connectedAt, the function Object, the prototype.
Array(items) == [type |-> "array", items |-> items, time |-> NoTime]
IsoString(t) == [type |-> "string", items |-> <<>>, time |-> t]
ObjectFunction == [type |-> "function", items |-> <<>>, time |-> NoTime]
ObjectPrototype == [type |-> "object", items |-> <<>>, time |-> NoTime]
NoValue == [type |-> "undefined", items |-> <<>>, time |-> NoTime]

\* db.offlineMessages[room]: an own list shadows an inherited property
Pending(d, room) ==
  IF OwnPending(d, room) # <<>> THEN Array(OwnPending(d, room))
  ELSE IF room = PollutedKey /\ proto # NoTime THEN IsoString(proto)
  ELSE IF room = ConstructorKey THEN ObjectFunction
  ELSE IF room = ProtoKey THEN ObjectPrototype
  ELSE NoValue

\* members of a socket.io group; a name nobody joined has no members
Group(g, room) == IF room \in DOMAIN g THEN g[room] ELSE {}

\* ------------------------------------------------------------- emitters
\* One emitted event: its name, the room it is about, the socket it is
\* addressed to (NoSocket for a group broadcast) and the sockets it reaches.
\* io.to(room).emit(ev)
IoToRoom(g, room, ev) ==
  {[ev |-> ev, room |-> room, target |-> NoSocket, rcpts |-> Group(g, room)]}
\* socket.to(room).emit(ev)
SocketToRoom(g, s, room, ev) ==
  {[ev |-> ev, room |-> room, target |-> NoSocket, rcpts |-> Group(g, room) \ {s}]}
\* io.to(socketId).emit(ev): the private group of a socket, empty once it is gone
IoToSocket(c, id, room, ev) ==
  {[ev |-> ev, room |-> room, target |-> id, rcpts |-> {x \in {id} : c[x] = "up"}]}
\* socket.emit(ev)
SocketEmit(s, room, ev) ==
  {[ev |-> ev, room |-> room, target |-> s, rcpts |-> {s}]}

\* ---------------------------------------------------------------- saveDB
\* fs.writeFileSync(dbFile, ...) writes the file, or throws before it has
\* opened it (the file is as it was), or throws after it has truncated it
\* (the file holds a prefix of the new text, which is no JSON).
WriteOutcomes == {"written", "refused", "truncated"}
Truncated == [truncated |-> TRUE]

\* db.json after one writeFileSync of snap with outcome o
Written(file, snap, o) ==
  IF o = "written" THEN <<snap>>
  ELSE IF o = "truncated" THEN <<Truncated>>
  ELSE file

\* db.json after the writes of snaps[i..] with the outcomes os[i..]
RECURSIVE WriteAll(_, _, _, _)
WriteAll(file, snaps, os, i) ==
  IF i > Len(snaps) THEN file
  ELSE WriteAll(Written(file, snaps[i], os[i]), snaps, os, i + 1)

\* the attempts counters of n timers armed after a failed first attempt
RECURSIVE FirstAttempts(_)
FirstAttempts(n) == IF n = 0 THEN <<>> ELSE Append(FirstAttempts(n - 1), 1)

\* A handler calls saveDB() once per element of snaps, the db it serializes
\* at that call.  A failed first attempt arms a one-second timer with
\* attempts = 1.
saveDB(snaps) ==
  \E os \in [1..Len(snaps) -> IF faults = 0 THEN {"written"} ELSE WriteOutcomes] :
    LET failed == {i \in 1..Len(snaps) : os[i] # "written"}
    IN /\ Cardinality(failed) <= faults
       /\ disk' = WriteAll(disk, snaps, os, 1)
       /\ timers' = timers \o FirstAttempts(Cardinality(failed))
       /\ faults' = faults - Cardinality(failed)

\* a handler that does not call saveDB()
NoSave == UNCHANGED <<disk, timers, faults>>

\* what a step that is no client event leaves in last
Internal(name) ==
  [ev |-> name, sock |-> NoSocket, room |-> Key(Undefined), err |-> "", ack |-> "none"]

\* RetrySave that tests attempts <= maxAttempts: one attempt more
RetrySave_OneMore ==
  /\ timers # <<>>
  /\ \E o \in WriteOutcomes :
       /\ disk' = Written(disk, db, o)
       /\ IF o = "written"
          THEN /\ timers' = Tail(timers)
               /\ UNCHANGED faults
          ELSE /\ faults > 0
               /\ faults' = faults - 1
               /\ timers' = IF Head(timers) + 1 <= maxAttempts
                            THEN Append(Tail(timers), Head(timers) + 1)
                            ELSE Tail(timers)
  /\ last' = Internal("attemptSave")
  /\ emits' = {}
  /\ delivered' = NoValue
  /\ UNCHANGED <<db, conn, groups, clock, unhandled, proto, peerJoins, wasFull, rejoined, sinceJoin>>

\* the timer callback: attemptSave run again, on the db as it is by then
RetrySave ==
  /\ timers # <<>>
  /\ \E o \in WriteOutcomes :
       /\ disk' = Written(disk, db, o)
       /\ IF o = "written"
          THEN /\ timers' = Tail(timers)
               /\ UNCHANGED faults
          ELSE /\ faults > 0
               /\ faults' = faults - 1
               /\ timers' = IF Head(timers) + 1 < maxAttempts
                            THEN Append(Tail(timers), Head(timers) + 1)
                            ELSE Tail(timers)
  /\ last' = Internal("attemptSave")
  /\ emits' = {}
  /\ delivered' = NoValue
  /\ UNCHANGED <<db, conn, groups, clock, unhandled, proto, peerJoins, wasFull, rejoined, sinceJoin>>

\* ------------------------------------------------------ acknowledgments
\* callback(result) throws a TypeError when the client sent no
\* acknowledgment function; thrown from the try block it is caught, and the
\* catch block's own callback(...) throws it again, out of the handler.
\* err is the first error the handler's catch block caught.
Outcome(ev, s, room, err, cb) ==
  [ev |-> ev, sock |-> s, room |-> room,
   err |-> IF err = "" /\ ~cb THEN TypeErrorCallback ELSE err,
   ack |-> IF ~cb THEN "none" ELSE IF err = "" THEN "ok" ELSE "fail"]

\* the handler ran its try block up to the callback: its effects are applied
Applied(l) == l.ack = "ok" \/ (l.ack = "none" /\ l.err = TypeErrorCallback)

\* ------------------------------------------------------------------ Init
InitDB ==
  [callRecords |-> <<>>,
   offlineMessages |-> [c \in Codes |-> <<>>],
   rooms |-> <<>>,
   stats |-> [totalCalls |-> 0, failedCalls |-> 0, totalConnections |-> 0]]

\* loadDB(): the db a start of the program takes from db.json; the literal
\* when there is no file or when JSON.parse throws
loadDB(file) ==
  IF file = <<>> \/ file = <<Truncated>> THEN InitDB ELSE file[1]

Init ==
  /\ disk = <<>>
  /\ db = loadDB(disk)
  /\ timers = <<>>
  /\ faults = 0
  /\ conn = [s \in Sockets |-> "new"]
  /\ groups = [c \in Codes |-> {}]
  /\ clock = 1
  /\ last = Internal("none")
  /\ emits = {}
  /\ delivered = NoValue
  /\ unhandled = FALSE
  /\ proto = NoTime
  /\ peerJoins = [c \in Codes |-> 0]
  /\ wasFull = [c \in Codes |-> FALSE]
  /\ rejoined = [c \in Codes |-> FALSE]
  /\ sinceJoin = [c \in Codes |-> <<>>]

\* the same start, under a disk that may fail MaxFaults writes
InitSave ==
  /\ disk = <<>>
  /\ db = loadDB(disk)
  /\ timers = <<>>
  /\ faults = MaxFaults
  /\ conn = [s \in Sockets |-> "new"]
  /\ groups = [c \in Codes |-> {}]
  /\ clock = 1
  /\ last = Internal("none")
  /\ emits = {}
  /\ delivered = NoValue
  /\ unhandled = FALSE
  /\ proto = NoTime
  /\ peerJoins = [c \in Codes |-> 0]
  /\ wasFull = [c \in Codes |-> FALSE]
  /\ rejoined = [c \in Codes |-> FALSE]
  /\ sinceJoin = [c \in Codes |-> <<>>]

\* time passes
Tick ==
  /\ clock < MaxClock
  /\ clock' = clock + 1
  /\ last' = Internal("tick")
  /\ emits' = {}
  /\ delivered' = NoValue
  /\ UNCHANGED <<db, disk, timers, faults, conn, groups, unhandled, proto, peerJoins, wasFull, rejoined, sinceJoin>>

\* io.on('connection')
Connect(s) ==
  /\ conn[s] = "new"
  /\ conn' = [conn EXCEPT ![s] = "up"]
  /\ db' = [db EXCEPT !.stats.totalConnections = @ + 1]
  /\ saveDB(<<db'>>)
  /\ last' = [Internal("connection") EXCEPT !.sock = s]
  /\ emits' = {}
  /\ delivered' = NoValue
  /\ UNCHANGED <<groups, clock, unhandled, proto, peerJoins, wasFull, rejoined, sinceJoin>>

\* createErr without the check that the code is not yet registered
createErr_NoExistsCheck(d, room) ==
  IF ~Truthy(room) \/ ~IsString(room) \/ Len(Key(room)) < MinCodeLength THEN InvalidRoomCode
  ELSE IF Inherited(Key(room)) THEN RoomAlreadyExists
  ELSE ""

\* the validation of socket.on('create'): the message thrown, "" for none
createErr(d, room) ==
  IF ~Truthy(room) \/ ~IsString(room) \/ Len(Key(room)) < MinCodeLength THEN InvalidRoomCode
  ELSE IF HasRoom(d, Key(room)) THEN RoomAlreadyExists
  ELSE ""

\* socket.on('create')
create(s, room, cb) ==
  /\ conn[s] = "up"
  /\ LET err == createErr(db, room)
         key == Key(room)
     IN /\ IF err = ""
           THEN /\ groups' = [groups EXCEPT ![key] = @ \cup {s}]
                /\ db' = [db EXCEPT !.rooms = InsertRoom(@,
                            [code |-> key, createdAt |-> clock, participants |-> <<s>>,
                             creator |-> s, connectedAt |-> NoTime])]
                /\ saveDB(<<db'>>)
                /\ peerJoins' = [peerJoins EXCEPT ![key] = 0]
                /\ wasFull' = [wasFull EXCEPT ![key] = FALSE]
                /\ rejoined' = [rejoined EXCEPT ![key] = FALSE]
           ELSE /\ NoSave
                /\ UNCHANGED <<groups, db, peerJoins, wasFull, rejoined>>
        /\ last' = Outcome("create", s, key, err, cb)
  /\ emits' = {}
  /\ delivered' = NoValue
  /\ unhandled' = (unhandled \/ ~cb)
  /\ UNCHANGED <<conn, clock, proto, sinceJoin>>

\* joinErr without the capacity check
joinErr_NoCapacity(d, room) ==
  IF ~Truthy(room) \/ ~IsString(room) THEN InvalidRoomCode
  ELSE IF ~HasRoom(d, Key(room)) THEN RoomDoesNotExist
  ELSE IF ~OwnRoom(d, Key(room)) THEN TypeErrorLength
  ELSE ""

\* joinErr with the capacity test off by one (> for >=)
joinErr_OffByOne(d, room) ==
  IF ~Truthy(room) \/ ~IsString(room) THEN InvalidRoomCode
  ELSE IF ~HasRoom(d, Key(room)) THEN RoomDoesNotExist
  ELSE IF ~OwnRoom(d, Key(room)) THEN TypeErrorLength
  ELSE IF Len(RoomObj(d, Key(room)).participants) > Capacity THEN RoomIsFull
  ELSE ""

\* the validation of socket.on('join'); an inherited property is truthy
\* and has no participants, whose length the capacity test reads
joinErr(d, room) ==
  IF ~Truthy(room) \/ ~IsString(room) THEN InvalidRoomCode
  ELSE IF ~HasRoom(d, Key(room)) THEN RoomDoesNotExist
  ELSE IF ~OwnRoom(d, Key(room)) THEN TypeErrorLength
  ELSE IF Len(RoomObj(d, Key(room)).participants) >= Capacity THEN RoomIsFull
  ELSE ""

\* roomObj.participants.push(socket.id)
pushParticipant(d, room, s) ==
  [d EXCEPT !.rooms[RoomIdx(d.rooms, room)].participants = Append(@, s)]

\* db.offlineMessages[room]?.length > 0
\* (an ISO string and the function Object have a positive length, the
\* prototype has none)
hasPending(d, room) ==
  LET v == Pending(d, room)
  IN \/ v.type = "array" /\ Len(v.items) > 0
     \/ v.type \in {"string", "function"}

\* delete db.offlineMessages[room]: it removes an own list only
deletePending(d, room) == [d EXCEPT !.offlineMessages[room] = <<>>]

\* isSecondUser that also holds for the first user
isSecondUser_AnyUser(roomObj) == Len(roomObj.participants) >= 1

\* roomObj.participants.length === 2
isSecondUser(roomObj) == Len(roomObj.participants) = 2

\* peerJoinedTarget that addresses the room's creator
peerJoinedTarget_Creator(roomObj) == roomObj.creator

\* the socket io.to(roomObj.participants[0]) addresses
peerJoinedTarget(roomObj) == roomObj.participants[1]

\* socket.on('join')
join(s, room, cb) ==
  /\ conn[s] = "up"
  /\ LET err == joinErr(db, room)
         key == Key(room)
     IN IF err = ""
        THEN LET g1 == [groups EXCEPT ![key] = @ \cup {s}]
                 \* push; saveDB()
                 db1 == pushParticipant(db, key, s)
                 pending == hasPending(db1, key)
                 \* delete; saveDB()
                 db2 == IF pending THEN deletePending(db1, key) ELSE db1
                 second == isSecondUser(RoomObj(db2, key))
                 \* db.stats.totalCalls++; saveDB()
                 db3 == IF second THEN [db2 EXCEPT !.stats.totalCalls = @ + 1] ELSE db2
             IN /\ second => db.stats.totalCalls < MaxCalls
                /\ groups' = g1
                /\ db' = db3
                /\ saveDB(<<db1>> \o (IF pending THEN <<db2>> ELSE <<>>)
                                  \o (IF second THEN <<db3>> ELSE <<>>))
                /\ delivered' = IF pending THEN Pending(db1, key) ELSE NoValue
                /\ emits' = (IF pending THEN SocketEmit(s, key, "pending_messages") ELSE {})
                            \cup IoToRoom(g1, key, "joined")
                            \cup (IF second
                                  THEN IoToSocket(conn, peerJoinedTarget(RoomObj(db2, key)),
                                                  key, "peer_joined")
                                  ELSE {})
                /\ peerJoins' = [peerJoins EXCEPT ![key] =
                                   IF \E e \in emits' : e.ev = "peer_joined" THEN @ + 1 ELSE @]
                /\ wasFull' = [wasFull EXCEPT ![key] =
                                 @ \/ Len(RoomObj(db3, key).participants) = 2]
                /\ rejoined' = [rejoined EXCEPT ![key] = @ \/ IsParticipant(db, key, s)]
                /\ sinceJoin' = [sinceJoin EXCEPT ![key] = <<>>]
                /\ last' = Outcome("join", s, key, "", cb)
        ELSE /\ last' = Outcome("join", s, key, err, cb)
             \* socket.emit('error', err.message) follows the callback
             /\ emits' = IF cb THEN SocketEmit(s, key, "error") ELSE {}
             /\ delivered' = NoValue
             /\ NoSave
             /\ UNCHANGED <<groups, db, peerJoins, wasFull, rejoined, sinceJoin>>
  /\ unhandled' = (unhandled \/ ~cb)
  /\ UNCHANGED <<conn, clock, proto>>

\* socket.on('offer'), socket.on('answer'), socket.on('ice'): one handler
\* body, up to the name of the payload field and of the event
RelayKinds == {"offer", "answer", "ice"}

\* their validation; data is undefined when hasData is false
relayErr(kind, d, s, hasData, room, hasBody) ==
  IF ~hasData THEN TypeErrorUndefined
  ELSE IF ~Truthy(room) \/ ~hasBody THEN InvalidData(kind)
  ELSE IF ~HasRoom(d, Key(room)) THEN NotARoomParticipant
  ELSE IF ~OwnRoom(d, Key(room)) THEN TypeErrorIncludes
  ELSE IF ~IsParticipant(d, Key(room), s) THEN NotARoomParticipant
  ELSE ""

relay(kind, s, hasData, room, hasBody, cb) ==
  /\ conn[s] = "up"
  /\ LET err == relayErr(kind, db, s, hasData, room, hasBody)
     IN /\ emits' = IF err = "" THEN SocketToRoom(groups, s, Key(room), kind) ELSE {}
        /\ last' = Outcome(kind, s, IF hasData THEN Key(room) ELSE Key(Undefined), err, cb)
  /\ delivered' = NoValue
  /\ unhandled' = (unhandled \/ ~cb)
  /\ NoSave
  /\ UNCHANGED <<db, conn, groups, clock, proto, peerJoins, wasFull, rejoined, sinceJoin>>

\* socket.on('recording_started'), socket.on('recording_stopped')
RecordingKinds == {"recording_started", "recording_stopped"}

recordingErr(d, s, room) ==
  IF ~HasRoom(d, Key(room)) THEN NotARoomParticipant
  ELSE IF ~OwnRoom(d, Key(room)) THEN TypeErrorIncludes
  ELSE IF ~IsParticipant(d, Key(room), s) THEN NotARoomParticipant
  ELSE ""

recording(kind, s, room, cb) ==
  /\ conn[s] = "up"
  /\ LET err == recordingErr(db, s, room)
     IN /\ emits' = IF err = ""
                    THEN SocketToRoom(groups, s, Key(room), "recording_notification")
                    ELSE {}
        /\ last' = Outcome(kind, s, Key(room), err, cb)
  /\ delivered' = NoValue
  /\ unhandled' = (unhandled \/ ~cb)
  /\ NoSave
  /\ UNCHANGED <<db, conn, groups, clock, proto, peerJoins, wasFull, rejoined, sinceJoin>>

\* the validation of socket.on('leave_message')
messageErr(d, room, message) ==
  IF ~Truthy(room) \/ message = "" THEN InvalidMessageData
  ELSE IF ~HasRoom(d, Key(room)) THEN RoomDoesNotExist
  \* db.offlineMessages[room] is an inherited property, which has no push
  ELSE IF Pending(d, Key(room)).type \notin {"array", "undefined"} THEN TypeErrorPush
  ELSE ""

\* db.offlineMessages[room].push({from, message, timestamp})
pushMessage(d, room, s, message, now) ==
  [d EXCEPT !.offlineMessages[room] =
     Append(@, [from |-> s, message |-> message, timestamp |-> now])]

\* socket.on('leave_message'); the payload is destructured in the parameter
\* list, outside the try block
leave_message(s, hasData, room, message, cb) ==
  /\ conn[s] = "up"
  /\ IF ~hasData
     THEN /\ last' = [Internal("leave_message") EXCEPT !.sock = s, !.err = TypeErrorUndefined]
          /\ unhandled' = TRUE
          /\ emits' = {}
          /\ NoSave
          /\ UNCHANGED <<db, sinceJoin>>
     ELSE LET err == messageErr(db, room, message)
              key == Key(room)
          IN /\ IF err = ""
                THEN /\ Len(OwnPending(db, key)) < MaxPending
                     /\ db' = pushMessage(db, key, s, message, clock)
                     /\ saveDB(<<db'>>)
                     /\ emits' = SocketToRoom(groups, s, key, "offline_message")
                     /\ sinceJoin' = [sinceJoin EXCEPT ![key] =
                                        Append(@, [from |-> s, message |-> message,
                                                   timestamp |-> clock])]
                ELSE /\ emits' = {}
                     /\ NoSave
                     /\ UNCHANGED <<db, sinceJoin>>
             /\ last' = Outcome("leave_message", s, key, err, cb)
             /\ unhandled' = (unhandled \/ ~cb)
  /\ delivered' = NoValue
  /\ UNCHANGED <<conn, groups, clock, proto, peerJoins, wasFull, rejoined>>

\* roomObj.connectedAt = new Date().toISOString()
markConnected(d, room, now) ==
  [d EXCEPT !.rooms[RoomIdx(d.rooms, room)].connectedAt = now]

\* socket.on('call_connected')
call_connected(s, room, cb) ==
  /\ conn[s] = "up"
  /\ LET key == Key(room)
     IN IF OwnRoom(db, key)
        THEN /\ db' = markConnected(db, key, clock)
             /\ saveDB(<<db'>>)
             /\ last' = Outcome("call_connected", s, key, "", cb)
             /\ UNCHANGED proto
        ELSE IF Inherited(key)
        \* roomObj is Object.prototype itself, or a method or a string
        \* that db.rooms inherits from it
        THEN /\ proto' = IF key = ProtoKey THEN clock ELSE proto
             /\ saveDB(<<db>>)
             /\ last' = Outcome("call_connected", s, key, "", cb)
             /\ UNCHANGED db
        ELSE /\ last' = Outcome("call_connected", s, key, RoomNotFound, cb)
             /\ NoSave
             /\ UNCHANGED <<db, proto>>
  /\ emits' = {}
  /\ delivered' = NoValue
  /\ unhandled' = (unhandled \/ ~cb)
  /\ UNCHANGED <<conn, groups, clock, peerJoins, wasFull, rejoined, sinceJoin>>

\* the guard of finalizeCallRecord: roomObj && roomObj.connectedAt
Finalizes(d, room) == OwnRoom(d, room) /\ ConnectedAt(RoomObj(d, room)) # NoTime

\* finalizeCallRecord(room): the db after it
finalizeCallRecord(d, room, now) ==
  IF Finalizes(d, room)
  THEN [d EXCEPT !.callRecords = Append(@,
                   [room |-> room,
                    startTime |-> ConnectedAt(RoomObj(d, room)),
                    endTime |-> now,
                    duration |-> now - ConnectedAt(RoomObj(d, room)),
                    participants |-> RoomObj(d, room).participants]),
                 !.rooms = DeleteRoom(@, room)]
  ELSE d

\* The removal that cleanupRoom and the loop body of cleanupSocketRooms
\* share, for a registered room: <<the db after it, the snapshots it saved>>
RemoveParticipant(d, room, socketId, now) ==
  IF OwnRoom(d, room) /\ IndexOf(RoomObj(d, room).participants, socketId) # 0
  THEN LET i == RoomIdx(d.rooms, room)
           d1 == [d EXCEPT !.rooms[i].participants = Splice(@, IndexOf(@, socketId))]
           empty == Len(d1.rooms[i].participants) = 0 /\ ConnectedAt(d1.rooms[i]) # NoTime
           d2 == IF empty THEN finalizeCallRecord(d1, room, now) ELSE d1
       IN <<d2, (IF empty /\ Finalizes(d1, room) THEN <<d2>> ELSE <<>>) \o <<d2>>>>
  ELSE <<d, <<>>>>

\* cleanupRoom(room, socketId): roomObj is a property db.rooms inherits, which
\* has no participants
cleanupErr(d, room) ==
  IF ~OwnRoom(d, room) /\ Inherited(room) THEN TypeErrorIndexOf ELSE ""

\* cleanupRoom(room, socketId)
cleanupRoom(d, room, socketId, now) == RemoveParticipant(d, room, socketId, now)

\* socket.leave(room)
LeaveGroup(g, room, s) == [c \in DOMAIN g |-> IF c = room THEN g[c] \ {s} ELSE g[c]]

\* socket.on('leave')
leave(s, room, cb) ==
  /\ conn[s] = "up"
  /\ LET key == Key(room)
         g1 == LeaveGroup(groups, key, s)
         err == cleanupErr(db, key)
         res == cleanupRoom(db, key, s, clock)
     IN /\ groups' = g1
        /\ IF err = ""
           THEN /\ res[1].callRecords # db.callRecords => Len(db.callRecords) < MaxRecords
                /\ db' = res[1]
                /\ IF res[2] = <<>> THEN NoSave ELSE saveDB(res[2])
                /\ emits' = SocketToRoom(g1, s, key, "leave")
           ELSE /\ emits' = {}
                /\ NoSave
                /\ UNCHANGED db
        /\ last' = Outcome("leave", s, key, err, cb)
  /\ delivered' = NoValue
  /\ unhandled' = (unhandled \/ ~cb)
  /\ UNCHANGED <<conn, clock, proto, peerJoins, wasFull, rejoined, sinceJoin>>

\* cleanupSocketRooms(socketId): for (const room in db.rooms), over the own
\* keys in property order; acc is <<db, snapshots saved, events emitted>>
RECURSIVE SweepRooms(_, _, _, _, _)
RECURSIVE RoomKeys(_)
SweepRooms(keys, acc, socketId, g, now) ==
  IF keys = <<>> THEN acc
  ELSE LET room == Head(keys)
           hit == OwnRoom(acc[1], room)
                  /\ IndexOf(RoomObj(acc[1], room).participants, socketId) # 0
           res == RemoveParticipant(acc[1], room, socketId, now)
       IN SweepRooms(Tail(keys),
                     <<res[1], acc[2] \o res[2],
                       acc[3] \cup (IF hit THEN IoToRoom(g, room, "leave") ELSE {})>>,
                     socketId, g, now)

\* the own keys of db.rooms, in property order
RoomKeys(rooms) ==
  IF rooms = <<>> THEN <<>> ELSE SubSeq(<<rooms[1].code>>, 1, 1) \o RoomKeys(Tail(rooms))

cleanupSocketRooms(d, socketId, g, now) ==
  SweepRooms(RoomKeys(d.rooms), <<d, <<>>, {}>>, socketId, g, now)

\* After the own keys, for..in visits the enumerable properties db.rooms
\* inherits: Object.prototype.connectedAt once call_connected has defined
\* it, a string, whose participants is undefined; not when db.rooms has an
\* own key of that name, which shadows it.  d is the db the loop starts on.
sweepErr(d) ==
  IF proto # NoTime /\ ~OwnRoom(d, PollutedKey) THEN TypeErrorIndexOf ELSE ""

\* socket.on('disconnect'): the transport has already taken the socket out
\* of every group
Disconnect(s) ==
  /\ conn[s] = "up"
  /\ conn' = [conn EXCEPT ![s] = "down"]
  /\ LET g1 == [c \in DOMAIN groups |-> groups[c] \ {s}]
         res == cleanupSocketRooms(db, s, g1, clock)
     IN /\ res[1].callRecords # db.callRecords => Len(db.callRecords) < MaxRecords
        /\ groups' = g1
        /\ db' = res[1]
        /\ IF res[2] = <<>> THEN NoSave ELSE saveDB(res[2])
        /\ emits' = res[3]
  /\ last' = [Internal("disconnect") EXCEPT !.sock = s, !.err = sweepErr(db)]
  /\ delivered' = NoValue
  /\ unhandled' = (unhandled \/ sweepErr(db) # "")
  /\ UNCHANGED <<clock, proto, peerJoins, wasFull, rejoined, sinceJoin>>

\* process.on('SIGINT') and the next start of the program: saveDB() makes
\* its first attempt, process.exit() ends the process with its timers, its
\* connections and its Object.prototype, and loadDB() of the new process
\* reads what db.json holds.  No disconnect handler runs.
Restart ==
  /\ \E o \in WriteOutcomes :
       /\ o # "written" => faults > 0
       /\ faults' = IF o = "written" THEN faults ELSE faults - 1
       /\ disk' = Written(disk, db, o)
  /\ db' = loadDB(disk')
  /\ timers' = <<>>
  /\ conn' = [s \in Sockets |-> IF conn[s] = "up" THEN "gone" ELSE conn[s]]
  /\ groups' = [c \in DOMAIN groups |-> {}]
  /\ proto' = NoTime
  /\ last' = Internal("SIGINT")
  /\ emits' = {}
  /\ delivered' = NoValue
  /\ UNCHANGED <<clock, unhandled, peerJoins, wasFull, rejoined, sinceJoin>>

\* ------------------------------------------------------- specifications
\* The code the single-room specifications use, the two codes of SpecCalls
\* (array indices, created in either order), and the room arguments that
\* are no code: one shorter than four characters, the empty string, a
\* missing argument, and the names of inherited properties.
OneCode == {"ABCD"}
TwoCodes == {"1234", "5678"}
Args(S) == {Str(c) : c \in S}
BadArgs == {Str(ShortCode), Str(EmptyCode), Undefined}
KeyArgs == Args(InheritedKeys)

\* Spec: every handler, well-formed events with an acknowledgment function,
\* a disk that does not fail, no time passing between the events.
Next ==
  \/ Restart
  \/ \E s \in Sockets : Connect(s)
  \/ \E s \in Sockets : Disconnect(s)
  \/ \E s \in Sockets, room \in Args(OneCode) : create(s, room, TRUE)
  \/ \E s \in Sockets, room \in Args(OneCode) : join(s, room, TRUE)
  \/ \E kind \in RelayKinds, s \in Sockets, room \in Args(OneCode) :
        relay(kind, s, TRUE, room, TRUE, TRUE)
  \/ \E kind \in RecordingKinds, s \in Sockets, room \in Args(OneCode) :
        recording(kind, s, room, TRUE)
  \/ \E s \in Sockets, room \in Args(OneCode), message \in Messages :
        leave_message(s, TRUE, room, message, TRUE)
  \/ \E s \in Sockets, room \in Args(OneCode) : call_connected(s, room, TRUE)
  \/ \E s \in Sockets, room \in Args(OneCode) : leave(s, room, TRUE)

Spec == Init /\ [][Next]_vars

\* SpecRooms: the room lifecycle, with room arguments that are no code, with
\* events that carry no acknowledgment function, and with restarts.
NextRooms ==
  \/ Restart
  \/ \E s \in Sockets : Connect(s)
  \/ \E s \in Sockets : Disconnect(s)
  \/ \E s \in Sockets, room \in Args(OneCode) \cup BadArgs \cup KeyArgs, cb \in BOOLEAN :
        create(s, room, cb)
  \/ \E s \in Sockets, room \in Args(OneCode) \cup BadArgs \cup KeyArgs, cb \in BOOLEAN :
        join(s, room, cb)
  \/ \E s \in Sockets, room \in Args(OneCode) \cup KeyArgs, cb \in BOOLEAN :
        call_connected(s, room, cb)
  \/ \E s \in Sockets, room \in Args(OneCode) \cup KeyArgs, cb \in BOOLEAN :
        leave(s, room, cb)

SpecRooms == Init /\ [][NextRooms]_vars

\* SpecRelay: the relay handlers with every payload shape, among clients
\* that create, join and leave a room or disconnect.
NextRelay ==
  \/ \E s \in Sockets : Connect(s)
  \/ \E s \in Sockets : Disconnect(s)
  \/ \E s \in Sockets, room \in Args(OneCode) : create(s, room, TRUE)
  \/ \E s \in Sockets, room \in Args(OneCode) : join(s, room, TRUE)
  \/ \E s \in Sockets, room \in Args(OneCode) : leave(s, room, TRUE)
  \/ \E kind \in RelayKinds, s \in Sockets, hasData \in BOOLEAN,
        room \in Args(OneCode) \cup BadArgs \cup KeyArgs, hasBody \in BOOLEAN,
        cb \in BOOLEAN :
        relay(kind, s, hasData, room, hasBody, cb)
  \/ \E kind \in RecordingKinds, s \in Sockets,
        room \in Args(OneCode) \cup BadArgs \cup KeyArgs, cb \in BOOLEAN :
        recording(kind, s, room, cb)

SpecRelay == Init /\ [][NextRelay]_vars

\* SpecMessages: offline messages left and collected while rooms are
\* created, joined, left, connected and finalized, time passes and the
\* program is restarted.
NextMessages ==
  \/ Tick
  \/ Restart
  \/ \E s \in Sockets : Connect(s)
  \/ \E s \in Sockets : Disconnect(s)
  \/ \E s \in Sockets, room \in Args(OneCode) : create(s, room, TRUE)
  \/ \E s \in Sockets, room \in Args(OneCode) : join(s, room, TRUE)
  \/ \E s \in Sockets, room \in Args(OneCode) : leave(s, room, TRUE)
  \/ \E s \in Sockets, room \in Args(OneCode) : call_connected(s, room, TRUE)
  \/ \E s \in Sockets, room \in Args(OneCode) \cup KeyArgs, message \in Messages :
        leave_message(s, TRUE, room, message, TRUE)

SpecMessages == Init /\ [][NextMessages]_vars

\* SpecCalls: two rooms at once, from their creation to their record, among
\* clients that stay until they disconnect.
NextCalls ==
  \/ \E s \in Sockets : Connect(s)
  \/ \E s \in Sockets : Disconnect(s)
  \/ \E s \in Sockets, room \in Args(TwoCodes) : create(s, room, TRUE)
  \/ \E s \in Sockets, room \in Args(TwoCodes) : join(s, room, TRUE)
  \/ \E s \in Sockets, room \in Args(TwoCodes) : call_connected(s, room, TRUE)

SpecCalls == Init /\ [][NextCalls]_vars

\* SpecSave: rooms created, joined and left while writes of db.json fail,
\* the retry timers fire between the events and the program is restarted.
NextSave ==
  \/ RetrySave
  \/ Restart
  \/ \E s \in Sockets : Connect(s)
  \/ \E s \in Sockets, room \in Args(OneCode) : create(s, room, TRUE)
  \/ \E s \in Sockets, room \in Args(OneCode) : join(s, room, TRUE)
  \/ \E s \in Sockets, room \in Args(OneCode) : leave(s, room, TRUE)

SpecSave == InitSave /\ [][NextSave]_vars

\* SpecKeys: one room whose code is the name of the property that
\* call_connected('__proto__') adds to Object.prototype, registered before
\* or refused after that event, with offline messages and restarts.
NextKeys ==
  \/ Restart
  \/ \E s \in Sockets : Connect(s)
  \/ \E s \in Sockets : Disconnect(s)
  \/ \E s \in Sockets : create(s, Str(PollutedKey), TRUE)
  \/ \E s \in Sockets : join(s, Str(PollutedKey), TRUE)
  \/ \E s \in Sockets : leave(s, Str(PollutedKey), TRUE)
  \/ \E s \in Sockets, room \in {Str(PollutedKey), Str(ProtoKey)} :
        call_connected(s, room, TRUE)
  \/ \E s \in Sockets, message \in Messages :
        leave_message(s, TRUE, Str(PollutedKey), message, TRUE)

SpecKeys == Init /\ [][NextKeys]_vars

\* ---------------------------------------------------------------- claims
\* the sockets in a sequence of participants
Members(seq) == {seq[i] : i \in 1..Len(seq)}

\* C1: every registered room has between 0 and 2 entries in participants,
\* whatever create, join, leave, disconnect, call_connected and
\* leave_message events were handled.
C1_ParticipantsWithinCapacity ==
  \A i \in 1..Len(db.rooms) : Len(db.rooms[i].participants) \in 0..Capacity

\* a join has just filled a room
C1_Witness ==
  /\ last.ev = "join" /\ Applied(last)
  /\ Len(Participants(db, last.room)) = Capacity

\* C2: the participants of a room hold no connection identifier twice.
C2_NoDuplicateParticipants ==
  \A i \in 1..Len(db.rooms) :
    \A j, k \in 1..Len(db.rooms[i].participants) :
      j # k => db.rooms[i].participants[j] # db.rooms[i].participants[k]

\* C3: a join of a registered room with n participants is rejected with
\* 'Room is full', changing nothing, when n = 2, and otherwise succeeds and
\* makes them n + 1: from n participants at most 2 - n joins succeed until
\* somebody is removed.
C3_JoinAdmission ==
  [][(last'.ev = "join" /\ OwnRoom(db, last'.room)) =>
       LET r == last'.room
           n == Len(RoomObj(db, r).participants)
       IN IF n >= 2
          THEN /\ last'.err = RoomIsFull
               /\ last'.ack # "ok"
               /\ db' = db
               /\ groups' = groups
          ELSE /\ Applied(last')
               /\ OwnRoom(db', r)
               /\ RoomObj(db', r).participants =
                    Append(RoomObj(db, r).participants, last'.sock)]_vars

\* a join was rejected because two other joins (or the create and a join)
\* had taken both places
C3_Witness ==
  /\ last.ev = "join" /\ last.err = RoomIsFull /\ last.ack = "fail"
  /\ Len(Participants(db, last.room)) = 2
  /\ C2_NoDuplicateParticipants

\* C4: create for a registered code fails with 'Room already exists' and
\* changes neither the database nor any transport group.
C4_CreateOnExistingRejected ==
  [][(last'.ev = "create" /\ OwnRoom(db, last'.room)) =>
       /\ last'.err = RoomAlreadyExists
       /\ last'.ack # "ok"
       /\ db' = db
       /\ groups' = groups]_vars

\* a client that is not in the room was refused its creation, after another
\* client had joined it and marked it connected
C4_Witness ==
  /\ last.ev = "create" /\ last.err = RoomAlreadyExists /\ last.ack = "fail"
  /\ OwnRoom(db, last.room)
  /\ RoomObj(db, last.room).connectedAt # NoTime
  /\ RoomObj(db, last.room).creator # last.sock
  /\ last.sock \notin groups[last.room]

\* the five relay events
AllRelayKinds == RelayKinds \cup RecordingKinds

\* C5: a relay event that names a room of which its sender is no
\* participant fails with 'Not a room participant' and emits nothing.
C5_AlwaysNotAParticipant ==
  (last.ev \in AllRelayKinds /\ last.room \in Codes \cup InheritedKeys
     /\ ~IsParticipant(db, last.room, last.sock))
  => (last.err = NotARoomParticipant /\ emits = {})

\* C6: the transport group of a room holds exactly the connections listed
\* in its participants, so that a relayed event reaches exactly the other
\* participants.
C6_GroupIsParticipants ==
  \A r \in Codes : groups[r] = Members(Participants(db, r))

\* C7: a successful join delivers exactly the messages appended for the
\* room since its previous successful join, in append order, to the joiner
\* alone, in one pending_messages event (none when there are no messages),
\* and leaves the room's pending sequence empty.
C7_PendingDeliveredOnJoin ==
  [][(last'.ev = "join" /\ Applied(last')) =>
       /\ delivered' = IF sinceJoin[last'.room] = <<>> THEN NoValue
                       ELSE Array(sinceJoin[last'.room])
       /\ OwnPending(db', last'.room) = <<>>
       /\ {e \in emits' : e.ev = "pending_messages"} =
            IF sinceJoin[last'.room] = <<>>
            THEN {}
            ELSE SocketEmit(last'.sock, last'.room, "pending_messages")]_vars

\* C8 as claimed: peer_joined is emitted once over the lifetime of a room.
\* Stated for the rooms that no participant has joined a second time, so
\* that its failure owes nothing to duplicate entries (C2).
C8_OncePerRoom == \A r \in Codes : ~rejoined[r] => peerJoins[r] <= 1

\* C8 as amended: peer_joined is emitted by exactly the joins that take a
\* room from one participant to two, once by each, and by no other event.
C8_PeerJoinedAtSecondJoin ==
  LET pj == {e \in emits : e.ev = "peer_joined"}
  IN /\ Cardinality(pj) <= 1
     /\ pj # {} <=> /\ last.ev = "join" /\ Applied(last)
                    /\ Len(Participants(db, last.room)) = 2

\* peer_joined was emitted for the second time in the life of a room
C8_Witness ==
  \E e \in emits : e.ev = "peer_joined" /\ peerJoins[e.room] = 2 /\ ~rejoined[e.room]

\* C9 as claimed: peer_joined goes to the creator of the room.  Stated for
\* the rooms that no participant has joined a second time (C2).
C9_RecipientIsCreator ==
  \A e \in emits :
    (e.ev = "peer_joined" /\ ~rejoined[e.room]) =>
      /\ e.target = RoomObj(db, e.room).creator
      /\ e.rcpts \subseteq {RoomObj(db, e.room).creator}

\* C9 as amended: peer_joined is addressed to the connection at position 0
\* of participants, the one that was in the room before the join, and
\* reaches nobody else.
C9_RecipientIsFirstParticipant ==
  \A e \in emits :
    e.ev = "peer_joined" =>
      /\ e.target = Participants(db, e.room)[1]
      /\ e.rcpts = {x \in {e.target} : conn[x] = "up"}

\* peer_joined went to a participant that is not the creator of the room
C9_Witness ==
  \E e \in emits :
    /\ e.ev = "peer_joined"
    /\ e.rcpts = {Participants(db, e.room)[1]}
    /\ Participants(db, e.room)[1] # RoomObj(db, e.room).creator
    /\ ~rejoined[e.room]

\* C10: a registered room with connectedAt set has had two participants.
C10_ConnectedImpliesWasFull ==
  \A i \in 1..Len(db.rooms) :
    db.rooms[i].connectedAt # NoTime => wasFull[db.rooms[i].code]

\* the call records of a room code: their positions in db.callRecords
RecordsOf(d, r) == {i \in 1..Len(d.callRecords) : d.callRecords[i].room = r}

\* C11: a step removes a room from the registry exactly when it appends one
\* call record for the room's code, and exactly when it is the leave or the
\* disconnect of the last participant of a room whose connectedAt is set; a
\* step appends no other record.
C11_RemovedWithItsRecord ==
  [][/\ \A r \in Codes :
          LET gone == OwnRoom(db, r) /\ ~OwnRoom(db', r)
              added == Cardinality(RecordsOf(db', r)) - Cardinality(RecordsOf(db, r))
              lastOut == /\ last'.ev \in {"leave", "disconnect"}
                         /\ last'.ev = "leave" => last'.room = r
                         /\ OwnRoom(db, r)
                         /\ RoomObj(db, r).connectedAt # NoTime
                         /\ RoomObj(db, r).participants = <<last'.sock>>
          IN /\ added = IF gone THEN 1 ELSE 0
             /\ gone <=> lastOut
     /\ Len(db'.callRecords) - Len(db.callRecords)
          = Cardinality({r \in Codes : OwnRoom(db, r) /\ ~OwnRoom(db', r)})
     /\ \A i \in 1..Len(db.callRecords) : db'.callRecords[i] = db.callRecords[i]]_vars

\* C12: when the creator of a room that a second client had joined, and
\* that was marked connected, disconnects as its last participant, the room
\* is removed and the call record appended for it has the participants
\* snapshot <<creator>>.
C12_SnapshotHoldsLastParticipant ==
  [][\A r \in Codes :
       (/\ last'.ev = "disconnect"
        /\ OwnRoom(db, r)
        /\ wasFull[r] /\ ~rejoined[r]
        /\ RoomObj(db, r).connectedAt # NoTime
        /\ RoomObj(db, r).creator = last'.sock
        /\ RoomObj(db, r).participants = <<last'.sock>>)
       => /\ ~OwnRoom(db', r)
          /\ \E i \in RecordsOf(db', r) \ RecordsOf(db, r) :
               db'.callRecords[i].participants = <<last'.sock>>]_vars

\* C13: no client event raises a fault out of its handler, and every error a
\* handler catches reaches the client as the {success: false, error} result.
C13_NoUnhandledFault ==
  /\ ~unhandled
  /\ last.err # "" => last.ack = "fail"

\* C14: a join, with an acknowledgment function, of a code that is not
\* registered, or of a room that has two participants, is answered
\* {success: false} with 'Room does not exist' or 'Room is full', emits
\* nothing to any other client, and changes neither
\* the transport groups nor the database (rooms, pending messages, call
\* records, statistics).
C14_FailedJoinHasNoEffect ==
  [][(/\ last'.ev = "join"
      /\ last'.ack # "none"
      /\ last'.room \in Codes \cup InheritedKeys
      /\ (~OwnRoom(db, last'.room) \/ Len(Participants(db, last'.room)) >= 2))
     => /\ last'.ack = "fail"
        /\ last'.err = IF OwnRoom(db, last'.room) THEN RoomIsFull ELSE RoomDoesNotExist
        /\ \A e \in emits' : e.rcpts \subseteq {last'.sock}
        /\ groups' = groups
        /\ db' = db]_vars

\* C15: a call_connected, leave_message or leave event for a registered
\* room, sent by a client that is none of its participants, changes neither
\* the room (connectedAt, participants) nor its pending messages, and
\* delivers no event to a participant of the room.
C15_OutsiderCannotAffectRoom ==
  [][(/\ last'.ev \in {"call_connected", "leave_message", "leave"}
      /\ last'.room \in Codes
      /\ OwnRoom(db, last'.room)
      /\ ~IsParticipant(db, last'.room, last'.sock))
     => /\ OwnRoom(db', last'.room)
        /\ RoomObj(db', last'.room) = RoomObj(db, last'.room)
        /\ OwnPending(db', last'.room) = OwnPending(db, last'.room)
        /\ \A e \in emits' :
             e.rcpts \cap Members(Participants(db, last'.room)) = {}]_vars

\* C16: a client whose disconnect has been handled is a participant of no
\* registered room.
C16_GoneAfterDisconnect ==
  \A s \in Sockets :
    conn[s] = "down" =>
      \A i \in 1..Len(db.rooms) : ~Includes(db.rooms[i].participants, s)

\* the retries the pending timers can still make
RECURSIVE RetriesLeft(_)
RetriesLeft(t) ==
  IF t = <<>> THEN 0 ELSE (maxAttempts - Head(t)) + RetriesLeft(Tail(t))

\* C17: a saveDB invocation makes at most 3 write attempts (a pending retry
\* has failed once or twice), a retry that writes stops, one that fails is
\* armed again only before its third attempt, so the retries still possible
\* decrease with every retry; no retry changes the in-memory database, and a
\* retry that writes leaves on disk the in-memory database of that moment.
C17_BoundedRetries ==
  [][/\ \A i \in 1..Len(timers') : timers'[i] \in 1..(maxAttempts - 1)
     /\ last'.ev = "attemptSave" =>
          /\ db' = db
          /\ RetriesLeft(timers') < RetriesLeft(timers)
          /\ \/ disk' = <<db>> /\ timers' = Tail(timers) /\ faults' = faults
             \/ /\ disk' \in {disk, <<Truncated>>} /\ faults' = faults - 1
                /\ timers' = IF Head(timers) + 1 < maxAttempts
                             THEN Append(Tail(timers), Head(timers) + 1)
                             ELSE Tail(timers)]_vars

\* the third attempt of a saveDB invocation has failed: nothing is armed
\* any more and db.json lacks what the in-memory database holds
C17_Witness ==
  /\ last.ev = "attemptSave"
  /\ timers = <<>>
  /\ faults = MaxFaults - maxAttempts
  /\ disk # <<db>>
  /\ db.rooms # <<>>

\* C18: the clock never goes back; connectedAt of a room is the clock of
\* the latest call_connected handled for it (each one overwrites it, no
\* other event changes it); a call record appended at clock c for a room
\* with connectedAt t has startTime t, endTime c and duration c - t, which
\* is not negative.
C18_DurationSinceLastConnected ==
  [][/\ clock' >= clock
     /\ (last'.ev = "call_connected" /\ Applied(last') /\ OwnRoom(db, last'.room)) =>
          RoomObj(db', last'.room).connectedAt = clock
     /\ \A r \in Codes :
          (/\ OwnRoom(db, r) /\ OwnRoom(db', r)
           /\ ~(last'.ev = "call_connected" /\ last'.room = r))
          => RoomObj(db', r).connectedAt = RoomObj(db, r).connectedAt
     /\ \A i \in (Len(db.callRecords) + 1)..Len(db'.callRecords) :
          LET rec == db'.callRecords[i]
          IN /\ OwnRoom(db, rec.room)
             /\ rec.startTime = RoomObj(db, rec.room).connectedAt
             /\ rec.startTime # NoTime
             /\ rec.endTime = clock
             /\ rec.duration = clock - RoomObj(db, rec.room).connectedAt
             /\ rec.duration >= 0]_vars

\* C19: no registered room has zero participants and connectedAt set.
C19_NoEmptyConnectedRoom ==
  \A i \in 1..Len(db.rooms) :
    ~(Len(db.rooms[i].participants) = 0 /\ db.rooms[i].connectedAt # NoTime)

\* C20: pending offline messages exist only for registered room codes.
C20_PendingOnlyForRegistered ==
  \A r \in Codes : OwnPending(db, r) # <<>> => OwnRoom(db, r)
====
